---- MODULE Spec2Model ----
(***************************************************************************)
(* Model of analyze_holopatcher_deps.py: the import-closure computation    *)
(* (find_imports_in_file, find_all_dependencies) and the pruning of the    *)
(* vendored tree done by main.                                             *)
(*                                                                         *)
(* A path is the sequence of its parts below vendor/holopatcher_py, the    *)
(* empty sequence being the vendored root itself.  A part is a record      *)
(* [stem, ext]: "io.py" is [stem |-> "io", ext |-> "py"], a name without   *)
(* a dot has ext = "".                                                     *)
(***************************************************************************)
EXTENDS Integers, Sequences, FiniteSets, TLC

\* ------------------------------------------------------------------ bounds
\* Largest number of files in a tree, the entry point not counted.
MaxFiles == 2
\* Largest number of import statements in the whole tree.
MaxImports == 2

\* ------------------------------------------------------------------ names
N(stem, ext) == [stem |-> stem, ext |-> ext]
D(stem) == N(stem, "")

\* Path.suffix of the last part of a path
Suffix(p) == IF p = << >> THEN "" ELSE p[Len(p)].ext

\* Path.parent
Parent(p) == IF p = << >> THEN << >> ELSE SubSeq(p, 1, Len(p) - 1)

\* p lies at or below d
Under(p, d) == Len(d) <= Len(p) /\ SubSeq(p, 1, Len(d)) = d

\* p lies strictly below d
Below(p, d) == Under(p, d) /\ p # d

\* root_dir / imp, imp a module name without a dot
Join(d, name) == Append(d, D(name))

\* every ancestor directory of p, the vendored root included
RECURSIVE Ancestors(_)
Ancestors(p) == IF p = << >> THEN {} ELSE {Parent(p)} \cup Ancestors(Parent(p))

\* ------------------------------------------------------------------ program constants
vendor_dir == << >>

entry_point == <<D("holopatcher"), N("__main__", "py")>>

\* a name that is no first-party root taken for one
RootSetWidened == {"pykotor", "utility", "holopatcher", "loggerplus", "extern"}

RootSet == {"pykotor", "utility", "holopatcher", "loggerplus"}

unused_dirs == <<
    <<D("utility"), D("gui"), D("qt")>>,
    <<D("utility"), D("ui_libraries")>>,
    <<D("pykotor"), D("resource"), D("formats"), D("tpc"), D("convert")>>,
    <<D("pykotor"), D("resource"), D("formats"), D("mdl")>> >>

\* fnmatch of one name against one of the patterns main and
\* find_all_dependencies hand to rglob
ArtifactPatterns == <<"*.pyi", "*.pyc", "*.pyo", "__pycache__", "*.out", "tests">>

Matches(pattern, name) ==
    CASE pattern = "*.py"  -> name.ext = "py"
      [] pattern = "*.pyi" -> name.ext = "pyi"
      [] pattern = "*.pyc" -> name.ext = "pyc"
      [] pattern = "*.pyo" -> name.ext = "pyo"
      [] pattern = "*.out" -> name.ext = "out"
      [] pattern = "__pycache__" -> name = D("__pycache__")
      [] pattern = "tests" -> name = D("tests")
      [] pattern = "*" -> TRUE
      [] OTHER -> FALSE

\* ------------------------------------------------------------------ import statements
\* An import statement as ast gives it: ast.Import with one alias (name the
\* dotted name), or ast.ImportFrom (name the dotted module, << >> when
\* node.module is None; level the count of leading dots).
Stmts == {
    [kind |-> "Import",     name |-> <<"pykotor">>,               level |-> 0],
    [kind |-> "Import",     name |-> <<"extern", "lib">>,         level |-> 0],
    [kind |-> "ImportFrom", name |-> <<"holopatcher", "config">>, level |-> 0],
    [kind |-> "ImportFrom", name |-> << >>,                       level |-> 1],
    [kind |-> "ImportFrom", name |-> <<"utility">>,               level |-> 1] }

\* ------------------------------------------------------------------ trees
\* The files a tree is drawn from, besides the entry point.
CandidateFiles == {
    <<D("pykotor"), N("__init__", "py")>>,
    <<D("pykotor"), D("resource"), D("formats"), D("mdl"), N("io", "py")>>,
    <<D("pykotor"), D("__pycache__"), N("c", "pyc")>>,
    <<D("utility"), D("gui"), D("qt"), N("w", "py")>>,
    <<D("holopatcher"), D("tests"), N("t", "py")>>,
    <<D("extern"), D("pkg"), N("lib", "py")>> }

\* The order of str on the names in use (code point order), as a rank.
NameOrder == <<
    N("__init__", "py"), N("__main__", "py"), D("__pycache__"),
    N("c", "pyc"), D("extern"), D("formats"), D("gui"), D("holopatcher"),
    N("io", "py"), N("lib", "py"), D("mdl"), D("pkg"), D("pykotor"), D("qt"), D("resource"),
    N("t", "py"), D("tests"), D("utility"), N("w", "py") >>

NameRank(n) == CHOOSE i \in 1..Len(NameOrder) : NameOrder[i] = n

\* PurePath.__lt__: the parts compared as sequences
RECURSIVE PathLess(_, _)
PathLess(p, q) ==
    IF q = << >> THEN FALSE
    ELSE IF p = << >> THEN TRUE
    ELSE IF Head(p) = Head(q) THEN PathLess(Tail(p), Tail(q))
    ELSE NameRank(Head(p)) < NameRank(Head(q))

\* sorted(S) for a set of paths
RECURSIVE Sorted(_)
Sorted(S) ==
    IF S = {} THEN << >>
    ELSE LET m == CHOOSE x \in S : \A y \in S \ {x} : PathLess(x, y)
         IN <<m>> \o Sorted(S \ {m})

\* the subsets of S with at most k elements
RECURSIVE SubsetsUpTo(_, _)
SubsetsUpTo(S, k) ==
    IF k = 0 THEN {{}}
    ELSE LET prev == SubsetsUpTo(S, k - 1)
         IN prev \cup {T \cup {x} : T \in prev, x \in S}

\* ------------------------------------------------------------------ state
VARIABLES
    dirs,           \* the directories that exist (<< >> is vendor/holopatcher_py)
    files,          \* the regular files that exist
    content,        \* per source file: [ok, stmts, size], what reading it gives
    locked,         \* the files whose unlink raises (locked, permission denied)
    tree0,          \* the tree as it was when the program started: [files, dirs]
    pc,             \* where main is
    exit_code,      \* what main returned: -1 until it returns
    error,          \* the exception that ended main: "none" when there is none
    start_file,     \* find_all_dependencies: its argument
    visited,        \* find_all_dependencies: visited
    to_process,     \* find_all_dependencies: to_process
    all_files,      \* find_all_dependencies: all_files
    warnings,       \* the files find_imports_in_file printed a warning for
    calls,          \* how often find_imports_in_file ran, per file
    run,            \* 0 inside main; 1, 2: the first, second call on one tree
    first_result,   \* what the first of two calls returned
    required_files, \* main: required_files
    all_py_files,   \* main: all_py_files
    removable,      \* main: removable
    total_size,     \* main: total_size
    todo,           \* main: what is left of sorted(removable)
    idx,            \* main: index into unused_dirs, then into the patterns
    removed_count   \* main: removed_count

fsvars == <<dirs, files, content, locked, tree0>>
depvars == <<start_file, visited, to_process, all_files, warnings, calls>>
mainvars == <<required_files, all_py_files, removable, total_size, todo, idx, removed_count>>
mainvars_but_idx == <<required_files, all_py_files, removable, total_size, todo, removed_count>>
vars == <<dirs, files, content, locked, tree0, pc, exit_code, error, start_file, visited,
          to_process, all_files, warnings, calls, run, first_result, required_files,
          all_py_files, removable, total_size, todo, idx, removed_count>>

\* ------------------------------------------------------------------ filesystem
\* Path.exists
Exists(p) == p \in files \cup dirs

\* d.glob(pattern) in place of d.rglob(pattern): the entries of d alone
GlobNotRecursive(d, pattern) ==
    {p \in files \cup dirs : p # << >> /\ Parent(p) = d /\ Matches(pattern, p[Len(p)])}

\* d.rglob(pattern): what lies below d and whose name matches
RGlob(d, pattern) ==
    {p \in files \cup dirs : Below(p, d) /\ Matches(pattern, p[Len(p)])}

\* any(d.iterdir())
HasEntries(fs, ds, d) == \E p \in fs \cup ds : p # << >> /\ Parent(p) = d

\* f.stat().st_size
Size(f) == IF f \in DOMAIN content THEN content[f].size ELSE 1

RECURSIVE SumSizes(_)
SumSizes(S) ==
    IF S = {} THEN 0
    ELSE LET f == CHOOSE x \in S : TRUE IN Size(f) + SumSizes(S \ {f})

\* ------------------------------------------------------------------ find_imports_in_file
\* name.split(".")[0]
FirstSegment(name) == name[1]

\* a from-import with level markers skipped altogether
StmtImportsNoRelative(s) ==
    IF s.kind = "Import" THEN {FirstSegment(s.name)}
    ELSE IF s.name # << >> /\ s.level = 0 THEN {FirstSegment(s.name)}
    ELSE {}

\* the names one statement adds to imports
StmtImports(s) ==
    IF s.kind = "Import" THEN {FirstSegment(s.name)}
    ELSE IF s.name # << >> THEN {FirstSegment(s.name)}
    ELSE {}

\* open, read and ast.parse succeed
Parses(file_path) == file_path \in files /\ content[file_path].ok

\* the except of lines 29-30 left out: what was read is returned as it is
find_imports_unguarded(file_path) ==
    IF file_path \in files
    THEN UNION {StmtImports(s) : s \in content[file_path].stmts}
    ELSE {}

find_imports_in_file(file_path) ==
    IF Parses(file_path)
    THEN UNION {StmtImports(s) : s \in content[file_path].stmts}
    ELSE {}

\* ------------------------------------------------------------------ find_all_dependencies
\* only the __init__.py of the module directory, not all that lies below it
EnqueuedInitOnly(imports, seen) ==
    {py_file \in files \cup dirs :
        /\ py_file \notin seen
        /\ \E imp \in imports :
              /\ imp \in RootSet
              /\ py_file = Append(Join(vendor_dir, imp), N("__init__", "py"))}

\* the test of imp against the four first-party names left out
EnqueuedAnyName(imports, seen) ==
    {py_file \in files \cup dirs :
        /\ py_file \notin seen
        /\ \E imp \in imports :
              /\ Exists(Join(vendor_dir, imp))
              /\ py_file \in RGlob(Join(vendor_dir, imp), "*.py")}

\* the test py_file not in visited left out
EnqueuedUnfiltered(imports, seen) ==
    {py_file \in files \cup dirs :
        \E imp \in imports :
              /\ imp \in RootSet
              /\ Exists(Join(vendor_dir, imp))
              /\ py_file \in RGlob(Join(vendor_dir, imp), "*.py")}

\* what one iteration adds to to_process for the imports of current
Enqueued(imports, seen) ==
    {py_file \in files \cup dirs :
        /\ py_file \notin seen
        /\ \E imp \in imports :
              /\ imp \in RootSet
              /\ Exists(Join(vendor_dir, imp))
              /\ py_file \in RGlob(Join(vendor_dir, imp), "*.py")}

\* line 47: the file is there and is a source file
IsSource(p) == Exists(p) /\ Suffix(p) = "py"

\* to_process assigned the files found, the pending ones dropped
PendingOverwritten(rest, imports, seen) ==
    IF \E imp \in imports : imp \in RootSet /\ Exists(Join(vendor_dir, imp))
    THEN Enqueued(imports, seen)
    ELSE rest

\* every source file of the tree put into to_process, imported or not
PendingWholeTree(rest, imports, seen) ==
    rest \cup {py_file \in RGlob(vendor_dir, "*.py") : py_file \notin seen}

\* lines 52-59: to_process once the imports of current are mapped to files;
\* rest is to_process without current
Pending(rest, imports, seen) == rest \cup Enqueued(imports, seen)

\* visited assigned the one file instead of growing by it
MarkVisitedOnly(seen, current) == {current}

\* visited.add(current) left out
MarkVisitedForgotten(seen, current) == seen

\* line 46
MarkVisited(seen, current) == seen \cup {current}

\* lines 37-39
DepsStart(file) ==
    /\ start_file' = file
    /\ visited' = {}
    /\ to_process' = {file}
    /\ all_files' = {}

\* lines 41-59: one iteration of the while loop; set.pop takes any element
FindDepsIter ==
    /\ pc = "deps"
    /\ to_process # {}
    /\ \E current \in to_process :
         IF current \in visited
         THEN /\ to_process' = to_process \ {current}
              /\ UNCHANGED <<visited, all_files, warnings, calls>>
         ELSE /\ visited' = MarkVisited(visited, current)
              /\ IF IsSource(current)
                 THEN /\ all_files' = all_files \cup {current}
                      /\ calls' = [calls EXCEPT ![current] = @ + 1]
                      /\ warnings' = IF Parses(current) THEN warnings
                                     ELSE warnings \cup {current}
                      /\ to_process' = Pending(to_process \ {current},
                                               find_imports_in_file(current), visited')
                 ELSE /\ to_process' = to_process \ {current}
                      /\ UNCHANGED <<all_files, warnings, calls>>
    /\ UNCHANGED <<fsvars, pc, exit_code, error, start_file, run, first_result, mainvars>>

\* ------------------------------------------------------------------ main
\* lines 65-80: the two setup checks, then the call of find_all_dependencies
\* the test for the entry point left out
SetupOkVendorOnly == Exists(vendor_dir)

\* lines 66 and 72: neither of the two setup errors
SetupOk == Exists(vendor_dir) /\ Exists(entry_point)

MainSetup ==
    /\ pc = "start"
    /\ IF ~SetupOk
       THEN /\ pc' = "exit"
            /\ exit_code' = 1
            /\ UNCHANGED <<start_file, visited, to_process, all_files>>
       ELSE /\ pc' = "deps"
            /\ DepsStart(entry_point)
            /\ UNCHANGED exit_code
    /\ UNCHANGED <<fsvars, error, warnings, calls, run, first_result, mainvars>>

\* the entry point counted among the removable files
RemovableWithEntry(inventory, required) == (inventory \ required) \cup {entry_point}

\* the subtraction of required_files left out
RemovableAll(inventory, required) == inventory

\* line 88
Removable(inventory, required) == inventory \ required

\* lines 80-100: find_all_dependencies returns; the inventory, the removable
\* set and the sizes; the percentage divides by total_size
MainReport ==
    /\ pc = "deps"
    /\ run = 0
    /\ to_process = {}
    /\ required_files' = all_files
    /\ all_py_files' = RGlob(vendor_dir, "*.py")
    /\ removable' = Removable(all_py_files', required_files')
    /\ total_size' = SumSizes({f \in all_py_files' : Exists(f)})
    /\ IF total_size' = 0
       THEN pc' = "raised" /\ error' = "ZeroDivisionError" /\ idx' = idx
       ELSE pc' = "unused" /\ error' = error /\ idx' = 1
    /\ UNCHANGED <<fsvars, exit_code, depvars, run, first_result, todo, removed_count>>

\* What deleting the files tf and the directories td can leave behind: all
\* of them gone; or, when a file among them is locked, the exception with
\* any part of the other files gone and the directories that hold no file
\* any more.
DeleteOutcomes(tf, td) ==
    IF tf \cap locked = {}
    THEN {[files |-> files \ tf, dirs |-> dirs \ td, ok |-> TRUE]}
    ELSE {[files |-> files \ R,
           dirs  |-> dirs \ {d \in td : ~\E f \in files \ R : Under(f, d)},
           ok    |-> FALSE] : R \in SUBSET (tf \ locked)}

\* shutil.rmtree(d)
Rmtree(d) ==
    DeleteOutcomes({f \in files : Under(f, d)}, {x \in dirs : Under(x, d)})

\* lines 111-116: one iteration over unused_dirs
MainRemoveUnusedDir ==
    /\ pc = "unused"
    /\ LET dir_path == unused_dirs[idx]
       IN  \E out \in (IF Exists(dir_path) THEN Rmtree(dir_path)
                       ELSE {[files |-> files, dirs |-> dirs, ok |-> TRUE]}) :
             /\ files' = out.files
             /\ dirs' = out.dirs
             /\ IF ~out.ok
                THEN /\ pc' = "raised"
                     /\ error' = "PermissionError"
                     /\ UNCHANGED <<idx, todo>>
                ELSE /\ error' = error
                     /\ IF idx < Len(unused_dirs)
                        THEN pc' = "unused" /\ idx' = idx + 1 /\ todo' = todo
                        ELSE /\ todo' = Sorted(removable)
                             /\ idx' = 1
                             /\ pc' = IF removable = {} THEN "sweep" ELSE "unlink"
    /\ UNCHANGED <<content, locked, tree0, exit_code, depvars, run, first_result,
                   required_files, all_py_files, removable, total_size, removed_count>>

\* the test any(parent.iterdir()) left out: every parent up to the root goes
RECURSIVE PruneParentsUnchecked(_, _, _)
PruneParentsUnchecked(fs, ds, parent) ==
    IF parent # vendor_dir /\ parent \in ds
    THEN PruneParentsUnchecked(fs, ds \ {parent}, Parent(parent))
    ELSE ds

\* lines 127-136: the directories left once the empty parents are removed
RECURSIVE PruneParents(_, _, _)
PruneParents(fs, ds, parent) ==
    IF parent # vendor_dir /\ parent \in ds /\ ~HasEntries(fs, ds, parent)
    THEN PruneParents(fs, ds \ {parent}, Parent(parent))
    ELSE ds

\* what file_path.unlink() raises: "none" when it removes the file
UnlinkError(file_path) ==
    IF file_path \in dirs THEN "IsADirectoryError"
    ELSE IF file_path \notin files THEN "FileNotFoundError"
    ELSE IF file_path \in locked THEN "PermissionError"
    ELSE "none"

\* lines 120-136: one iteration over sorted(removable)
MainRemoveFile ==
    /\ pc = "unlink"
    /\ LET file_path == Head(todo)
       IN  IF UnlinkError(file_path) # "none"
           THEN /\ pc' = "raised"
                /\ error' = UnlinkError(file_path)
                /\ UNCHANGED <<files, dirs, todo, removed_count>>
           ELSE /\ files' = files \ {file_path}
                /\ removed_count' = removed_count + 1
                /\ dirs' = PruneParents(files', dirs, Parent(file_path))
                /\ todo' = Tail(todo)
                /\ pc' = IF todo' = << >> THEN "sweep" ELSE "unlink"
                /\ error' = error
    /\ UNCHANGED <<content, locked, tree0, exit_code, depvars, run, first_result,
                   required_files, all_py_files, removable, total_size, idx>>

\* lines 142-149: one pattern of the artifact sweep: the matching files are
\* unlinked, the matching directories removed with all they hold
MainSweep ==
    /\ pc = "sweep"
    /\ LET items == RGlob(vendor_dir, ArtifactPatterns[idx])
           gone == {d \in dirs : \E i \in items \cap dirs : Under(d, i)}
           tf == (items \cap files) \cup {f \in files : \E i \in items \cap dirs : Under(f, i)}
       IN  \E out \in DeleteOutcomes(tf, gone) :
             /\ files' = out.files
             /\ dirs' = out.dirs
             /\ IF ~out.ok
                THEN pc' = "raised" /\ error' = "PermissionError" /\ idx' = idx
                ELSE /\ error' = error
                     /\ IF idx < Len(ArtifactPatterns)
                        THEN pc' = "sweep" /\ idx' = idx + 1
                        ELSE pc' = "final" /\ idx' = idx
    /\ UNCHANGED <<content, locked, tree0, exit_code, depvars, run, first_result, mainvars_but_idx>>

\* lines 151-158: the final size and the savings, then return 0
MainFinish ==
    /\ pc = "final"
    /\ IF total_size = 0
       THEN pc' = "raised" /\ error' = "ZeroDivisionError" /\ exit_code' = exit_code
       ELSE pc' = "exit" /\ error' = error /\ exit_code' = 0
    /\ UNCHANGED <<fsvars, depvars, run, first_result, mainvars>>

\* ------------------------------------------------------------------ initial states
PyOf(tree) == {f \in tree : Suffix(f) = "py"}

\* What may be wrong with a tree: nothing; one source file that does not
\* parse; one file whose unlink raises; or every source file without an
\* import statement has size 0.
Faults(tree) ==
    {[kind |-> "none", file |-> << >>], [kind |-> "blank", file |-> << >>]}
    \cup {[kind |-> "malformed", file |-> f] : f \in PyOf(tree)}
    \cup {[kind |-> "locked", file |-> f] : f \in tree}

\* the contents of the source files of a tree, given the statements P (pairs
\* of a file and a statement) and the fault
ContentOf(tree, P, fault) ==
    [f \in PyOf(tree) |->
        LET stmts == {s \in Stmts : <<f, s>> \in P}
            ok == ~(fault.kind = "malformed" /\ fault.file = f)
        IN  [ok |-> ok, stmts |-> stmts,
             size |-> IF fault.kind = "blank" /\ stmts = {} THEN 0 ELSE 1]]

\* a tree, its contents and its fault: the vendored root with an entry point
InitTree(tree) ==
    /\ files = tree
    /\ dirs = {<< >>} \cup UNION {Ancestors(f) : f \in tree}
    /\ \E P \in SubsetsUpTo(PyOf(tree) \X Stmts, MaxImports), fault \in Faults(tree) :
         /\ content = ContentOf(tree, P, fault)
         /\ locked = IF fault.kind = "locked" THEN {fault.file} ELSE {}

\* no file has been handed to find_imports_in_file in this call
NoCalls == [f \in CandidateFiles \cup {entry_point} |-> 0]

InitCommon ==
    /\ tree0 = [files |-> files, dirs |-> dirs]
    /\ calls = NoCalls
    /\ exit_code = -1
    /\ error = "none"
    /\ visited = {}
    /\ all_files = {}
    /\ warnings = {}
    /\ first_result = {}
    /\ required_files = {}
    /\ all_py_files = {}
    /\ removable = {}
    /\ total_size = 0
    /\ todo = << >>
    /\ idx = 0
    /\ removed_count = 0

Init ==
    /\ \/ \E T \in SubsetsUpTo(CandidateFiles, MaxFiles) : InitTree(T \cup {entry_point})
       \/ \E T \in SubsetsUpTo(CandidateFiles, MaxFiles) :
            \* the entry point is missing
            /\ files = T
            /\ dirs = {<< >>} \cup UNION {Ancestors(f) : f \in T}
            /\ content = ContentOf(T, {}, [kind |-> "none", file |-> << >>])
            /\ locked = {}
       \/ \* the vendored root is missing
          /\ files = {}
          /\ dirs = {}
          /\ content = ContentOf({}, {}, [kind |-> "none", file |-> << >>])
          /\ locked = {}
    /\ pc = "start"
    /\ run = 0
    /\ start_file = entry_point
    /\ to_process = {}
    /\ InitCommon

Next ==
    \/ MainSetup
    \/ FindDepsIter
    \/ MainReport
    \/ MainRemoveUnusedDir
    \/ MainRemoveFile
    \/ MainSweep
    \/ MainFinish

Spec == Init /\ [][Next]_vars

\* ------------------------------------------------------------------ find_all_dependencies alone
\* find_all_dependencies called twice on one unmodified tree, with any of
\* these as start_file: it may exist or not, be a source file or not.
StartFiles == {entry_point, <<D("pykotor"), D("__pycache__"), N("c", "pyc")>>}

\* the first call returns (line 61) and the second starts (lines 37-39)
DepsReturnFirst ==
    /\ pc = "deps"
    /\ run = 1
    /\ to_process = {}
    /\ first_result' = all_files
    /\ run' = 2
    /\ DepsStart(start_file)
    /\ calls' = NoCalls
    /\ UNCHANGED <<fsvars, pc, exit_code, error, warnings, mainvars>>

\* the second call returns (line 61)
DepsReturnSecond ==
    /\ pc = "deps"
    /\ run = 2
    /\ to_process = {}
    /\ pc' = "returned"
    /\ UNCHANGED <<fsvars, exit_code, error, depvars, run, first_result, mainvars>>

InitDepsFrom(starts) ==
    /\ \E T \in SubsetsUpTo(CandidateFiles, MaxFiles), E \in {{}, {entry_point}} :
         /\ files = T \cup E
         /\ dirs = {<< >>} \cup UNION {Ancestors(f) : f \in files}
         /\ \E P \in SubsetsUpTo(PyOf(files) \X Stmts, MaxImports),
               fault \in {g \in Faults(files) : g.kind \in {"none", "malformed"}} :
              content = ContentOf(files, P, fault)
         /\ locked = {}
    /\ pc = "deps"
    /\ run = 1
    /\ start_file \in starts
    /\ to_process = {start_file}
    /\ InitCommon

InitDeps == InitDepsFrom(StartFiles)

NextDeps == FindDepsIter \/ DepsReturnFirst \/ DepsReturnSecond

SpecDeps == InitDeps /\ [][NextDeps]_vars

\* The calls from the entry point, which may be missing from the tree; the
\* loop is sequential code: a step that can be taken is taken.
FairDeps == InitDepsFrom({entry_point}) /\ [][NextDeps]_vars /\ WF_vars(NextDeps)

\* ------------------------------------------------------------------ claims

\* The Inventory: the source files of the tree the program started on.
Inventory == {f \in tree0.files : Suffix(f) = "py"}

\* main has computed required_files, all_py_files and removable
Reported == pc \notin {"start", "deps"} /\ exit_code # 1

\* C1: what find_all_dependencies collects is a subset of the Inventory, and
\* removable is the Inventory minus required_files: the two are disjoint and
\* together make up the Inventory.
C1_Partition ==
    /\ run = 0 => all_files \subseteq Inventory
    /\ Reported =>
         /\ all_py_files = Inventory
         /\ required_files \subseteq Inventory
         /\ removable = Inventory \ required_files
         /\ removable \cap required_files = {}
         /\ removable \cup required_files = Inventory

C1_Witness ==
    Reported /\ Cardinality(required_files) >= 2 /\ removable # {}

\* find_all_dependencies has returned (its loop has ended)
Returned == pc = "returned" \/ (pc = "deps" /\ to_process = {})

\* the source files below the directory of the root module m
SourceUnder(m) == {p \in files : Below(p, <<D(m)>>) /\ Suffix(p) = "py"}

\* R holds the start file if that is an existing source file, and with a file
\* every source file below each first-party directory the file refers to
Closed(R) ==
    /\ (start_file \in files /\ Suffix(start_file) = "py") => start_file \in R
    /\ \A f \in R : \A m \in find_imports_in_file(f) \cap RootSet :
          <<D(m)>> \in dirs => SourceUnder(m) \subseteq R

\* C2: the result of find_all_dependencies is the least set that holds the
\* start file (if it is an existing source file) and, with every file in it,
\* all source files below each existing first-party directory that file
\* refers to.
C2_LeastClosedSet ==
    Returned =>
        /\ Closed(all_files)
        /\ \A R \in SUBSET PyOf(files) : Closed(R) => all_files \subseteq R

C2_Witness ==
    /\ pc = "returned"
    /\ Cardinality(all_files) >= 2
    /\ PyOf(files) \ all_files # {}

\* what find_imports_in_file gave for f on the tree the program started on
ImportsAtStart(f) ==
    IF f \in tree0.files /\ content[f].ok
    THEN UNION {StmtImports(s) : s \in content[f].stmts}
    ELSE {}

PkgInit == <<D("pykotor"), N("__init__", "py")>>
PkgHelper == <<D("pykotor"), D("resource"), D("formats"), D("mdl"), N("io", "py")>>

\* The scenario of C4 in the names of the program: the entry point imports
\* the root module pykotor and nothing else, pykotor/__init__.py imports
\* nothing, and no statement of any file names the module of PkgHelper.
C4_Scenario ==
    /\ tree0.files = {entry_point, PkgInit, PkgHelper}
    /\ \A f \in DOMAIN content : content[f].ok
    /\ content[entry_point].stmts =
           {[kind |-> "Import", name |-> <<"pykotor">>, level |-> 0]}
    /\ content[PkgInit].stmts = {}
    /\ \A f \in DOMAIN content : \A s \in content[f].stmts :
           s.name # <<"pykotor", "resource", "formats", "mdl", "io">>

\* C4 as claimed: in the scenario the helper that nothing imports is left
\* out of required_files and is removable.
C4_Original ==
    (Reported /\ C4_Scenario) =>
        /\ required_files = {entry_point, PkgInit}
        /\ PkgHelper \in removable

\* C4: a source file below a first-party root, the entry point aside, is in
\* required_files exactly when a file of required_files refers to that root
\* by its top-level name, whether or not anything imports the file itself;
\* in the scenario required_files holds the helper as well and the helper is
\* not removable.
C4_WholeRootPulledIn ==
    Reported =>
        /\ \A f \in Inventory \ {entry_point} :
              f \in required_files <=>
                 \E g \in required_files : \E m \in ImportsAtStart(g) \cap RootSet :
                    Below(f, <<D(m)>>)
        /\ C4_Scenario =>
              /\ required_files = {entry_point, PkgInit, PkgHelper}
              /\ PkgHelper \notin removable

C4_Witness == Reported /\ C4_Scenario /\ PkgHelper \in required_files

\* main has returned 0
Completed == pc = "exit" /\ exit_code = 0

\* f lies below one of the subtrees main removes outright
InUnusedDir(f) == \E i \in 1..Len(unused_dirs) : Under(f, unused_dirs[i])

\* f, or a directory above it, has a name the artifact sweep matches
InArtifact(f) ==
    \E k \in 1..Len(f) : \E j \in 1..Len(ArtifactPatterns) :
        Matches(ArtifactPatterns[j], f[k])

\* C5 as claimed: after main no file of required_files has been deleted,
\* and every directory above one is still there.
C5_Original ==
    Completed => \A f \in required_files : f \in files /\ Ancestors(f) \subseteq dirs

\* C5: after main a file of required_files is still there, with every
\* directory above it, exactly when it lies neither below a subtree of
\* unused_dirs nor below a directory the artifact sweep matches; the
\* deletion of the removable files and the pruning of empty directories
\* delete none.
C5_RequiredOutsideListsKept ==
    Completed =>
        \A f \in required_files :
            /\ f \in files <=> ~(InUnusedDir(f) \/ InArtifact(f))
            /\ f \in files => Ancestors(f) \subseteq dirs

C5_Witness ==
    /\ Completed
    /\ required_files \ files # {}
    /\ required_files \cap files # {}
    /\ removable # {}
    /\ removable \cap files = {}

DeletionErrors == {"FileNotFoundError", "PermissionError", "IsADirectoryError"}

\* C6 as claimed: a deletion that fails is skipped: it never ends the run,
\* and at the end every removable file that could be deleted is gone.
C6_Original ==
    /\ pc = "raised" => error \notin DeletionErrors
    /\ Completed => (removable \cap files) \subseteq locked

\* the program started on a tree with the vendored root and the entry point
SetupOkAtStart == << >> \in tree0.dirs /\ entry_point \in tree0.files \cup tree0.dirs

\* C7 as claimed: with the vendored root and the entry point there, nothing
\* stops main before it returns 0.
C7_Original ==
    SetupOkAtStart => /\ pc # "raised"
                      /\ pc = "exit" => exit_code = 0

\* C8: with the vendored root or the entry point missing main returns a
\* value that is not 0, the tree is as it was, and find_all_dependencies
\* has not been started.
C8_SetupErrorLeavesTree ==
    (~SetupOkAtStart /\ pc # "start") =>
        /\ pc = "exit" /\ exit_code # 0 /\ error = "none"
        /\ files = tree0.files /\ dirs = tree0.dirs
        /\ visited = {} /\ to_process = {} /\ all_files = {}
        /\ calls = NoCalls /\ removed_count = 0

C8_Witness ==
    /\ pc = "exit" /\ exit_code = 1
    /\ << >> \in tree0.dirs
    /\ PyOf(tree0.files) # {}

\* C9 as claimed: when the cleanup has finished no directory below the
\* vendored root is empty (no tree starts with an empty directory, so an
\* empty one is the work of the cleanup).
C9_Original ==
    Completed => \A d \in dirs \ {vendor_dir} : HasEntries(files, dirs, d)

\* C3: the work loop of find_all_dependencies terminates on every tree and
\* import graph, cycles and files reached along two paths included, and no
\* file is handed to find_imports_in_file more than once.
C3_TerminatesEachFileOnce ==
    /\ [](\A f \in DOMAIN calls : calls[f] <= 1)
    /\ <>(pc = "returned")

\* two files of the result that pull each other in: an import cycle
C3_Witness ==
    /\ pc = "returned"
    /\ \E f, g \in all_files :
          /\ f # g
          /\ g \in Enqueued(find_imports_in_file(f), {})
          /\ f \in Enqueued(find_imports_in_file(g), {})
          /\ calls[f] = 1 /\ calls[g] = 1

\* C10: the result depends on the tree alone: a second call on the same
\* tree, popping in whatever order, returns what the first call returned.
C10_SameResultTwice == pc = "returned" => all_files = first_result

C10_Witness ==
    /\ pc = "returned"
    /\ all_files = first_result
    /\ Cardinality(first_result) >= 3

\* ------------------------------------------------------------------ references and the closure they give
\* The names a parsed statement refers to, the level markers ignored: the
\* first segment of the dotted name, nothing when there is no name.
NamedRefs(s) == IF s.name = << >> THEN {} ELSE {s.name[1]}

\* The same with every relative from-import dropped.
AbsoluteRefs(s) == IF s.level > 0 THEN {} ELSE NamedRefs(s)

\* the first-party names file f refers to under Ref, none if f does not parse
RootRefs(Ref(_), f) ==
    IF f \in DOMAIN content /\ content[f].ok
    THEN (UNION {Ref(s) : s \in content[f].stmts}) \cap
             {"pykotor", "utility", "holopatcher", "loggerplus"}
    ELSE {}

\* one round: R and every source file below a first-party directory that
\* a file of R refers to
RECURSIVE Grow(_, _)
Grow(Ref(_), R) ==
    LET more == R \cup UNION {SourceUnder(m) : m \in UNION {RootRefs(Ref, f) : f \in R}}
    IN  IF more = R THEN R ELSE Grow(Ref, more)

\* the files reachable from start_file when statements refer to Ref
ReachWith(Ref(_)) ==
    Grow(Ref, IF start_file \in files /\ Suffix(start_file) = "py" THEN {start_file} ELSE {})

\* the first part of the path of f names no first-party root
OutsideRoots(f) == f # << >> /\ f[1].stem \notin {"pykotor", "utility", "holopatcher", "loggerplus"}

\* C11: a reference to a name outside the four first-party names never
\* brings a file into to_process or all_files, even when a directory of that
\* name exists: only start_file can lie outside the first-party
\* directories, and the result is what it would be with every such
\* reference removed from every file.
C11_ExternalNeverPulled ==
    /\ \A f \in (to_process \cup all_files) \ {start_file} : ~OutsideRoots(f)
    /\ Returned => all_files = ReachWith(NamedRefs)

\* a file of the result imports extern.lib, extern/ exists, nothing of it is in the result
C11_Witness ==
    /\ pc = "returned"
    /\ <<D("extern")>> \in dirs
    /\ \E f \in all_files : content[f].ok /\ \E s \in content[f].stmts : s.name = <<"extern", "lib">>
    /\ \A f \in all_files : ~OutsideRoots(f)

\* the files of the tree that cannot be read or parsed
Malformed == {f \in PyOf(files) : ~content[f].ok}

\* C12: a file the traversal reaches and that does not parse gets a warning
\* and gives no reference: the call still returns, the file itself is in
\* the result, and the result is what it would be if the file held no import.
C12_MalformedReachedKept ==
    /\ \A f \in Malformed \cap visited : f \in warnings /\ f \in all_files
    /\ \A f \in Malformed : find_imports_in_file(f) = {}
    /\ Returned => all_files = ReachWith(NamedRefs)

\* the result holds a file that does not parse and whose text imports a
\* first-party root with source files that stay out of the result
C12_Witness ==
    /\ pc = "returned"
    /\ \E f \in Malformed \cap all_files : \E s \in content[f].stmts :
          \E m \in NamedRefs(s) :
             /\ m \in {"pykotor", "utility", "holopatcher", "loggerplus"}
             /\ SourceUnder(m) # {}
             /\ SourceUnder(m) \cap all_files = {}
             /\ f \in warnings

\* the files that do not parse and lie outside the closure
MalformedOutside == Malformed \ ReachWith(NamedRefs)

\* C13 as claimed: when the call has returned, a warning is recorded for a
\* file that does not parse and lies outside the closure.
C13_Original == Returned => \A f \in MalformedOutside : f \in warnings

\* C13: a file that does not parse and lies outside the closure is never
\* read: no warning is recorded for it, it is not handed to
\* find_imports_in_file and is not in the result; the call returns and the
\* other files are in the result exactly as the closure says.
C13_MalformedOutsideNeverRead ==
    /\ \A f \in MalformedOutside :
          f \notin warnings /\ calls[f] = 0 /\ f \notin visited /\ f \notin all_files
    /\ (Returned /\ MalformedOutside # {}) => all_files = ReachWith(NamedRefs)

C13_Witness ==
    /\ pc = "returned"
    /\ MalformedOutside # {}
    /\ Cardinality(all_files) >= 2
    /\ warnings = {}

\* the relative from-imports of the files that parse: pairs of file and statement
RelativeImports ==
    {<<f, s>> \in PyOf(files) \X Stmts : content[f].ok /\ s \in content[f].stmts /\ s.level > 0}

\* C14 as claimed: a relative from-import gives no reference, with or
\* without a module path: the result is the closure of the absolute imports.
C14_Original == Returned => all_files = ReachWith(AbsoluteRefs)

\* C14: a relative from-import without a module path gives no reference;
\* one with a module path gives the first segment of that path, the level
\* markers ignored, as an absolute import would: if that segment is a
\* first-party name whose directory exists, the source files below it are
\* pulled in.
C14_RelativeWithPathResolved ==
    /\ \A p \in RelativeImports :
          NamedRefs(p[2]) \subseteq find_imports_in_file(p[1])
    /\ \A f \in PyOf(files) :
          (content[f].ok /\ \A s \in content[f].stmts : s.level > 0 /\ s.name = << >>)
             => find_imports_in_file(f) = {}
    /\ Returned =>
          /\ all_files = ReachWith(NamedRefs)
          /\ \A p \in RelativeImports : p[1] \in all_files =>
                \A m \in NamedRefs(p[2]) \cap RootSet : SourceUnder(m) \subseteq all_files

\* the result holds utility/gui/qt/w.py, and the only thing that refers to
\* utility is a relative from-import
C14_Witness ==
    /\ pc = "returned"
    /\ <<D("utility"), D("gui"), D("qt"), N("w", "py")>> \in all_files
    /\ \E p \in RelativeImports : p[1] \in all_files /\ p[2].name = <<"utility">>
    /\ \A f \in PyOf(files) : \A s \in content[f].stmts :
          s.name # << >> /\ s.name[1] = "utility" => s.level > 0

\* C15: in every step of the loop visited and all_files only grow,
\* all_files stays within visited, and a file that is in visited is not
\* handed to find_imports_in_file again.
C15_GrowOnly ==
    [][ /\ visited \subseteq visited'
        /\ all_files \subseteq all_files'
        /\ all_files' \subseteq visited'
        /\ \A f \in DOMAIN calls : calls'[f] > calls[f] => f \notin visited ]_vars

\* the loop has handled three files
C15_Witness ==
    /\ pc = "deps"
    /\ Cardinality(visited) >= 3
    /\ all_files \subseteq visited
    /\ \E f \in visited : calls[f] = 1

C17_OnlyRemovableUnlinked ==
    [][ /\ pc = "unlink" =>
              /\ Head(todo) \in removable
              /\ files \ files' \subseteq {Head(todo)}
              /\ (files \ files') \cap required_files = {}
              /\ entry_point \notin files \ files'
              /\ removable = Inventory \ required_files
              /\ todo' # todo => todo' = Tail(todo)
        /\ pc' = "unlink" => {todo'[i] : i \in DOMAIN todo'} \subseteq removable'
        /\ (files' # files \/ dirs' # dirs) =>
              /\ removable' = removable
              /\ required_files' = required_files
              /\ all_py_files' = all_py_files
        /\ (removable' # removable \/ required_files' # required_files) =>
              files = tree0.files /\ dirs = tree0.dirs ]_vars

\* the loop has unlinked a removable file and every required file, the
\* entry point among them, is still there
C17_Witness ==
    /\ pc = "sweep" /\ idx = 1
    /\ removed_count >= 1
    /\ removable # {} /\ removable \cap files = {}
    /\ Cardinality(required_files) >= 2
    /\ entry_point \in required_files
    /\ required_files \subseteq files

\* C18: whenever the while loop of find_all_dependencies is about to take a
\* file, to_process and visited have no file in common; so every iteration
\* takes a file that is not in visited and marks it, and the branch that
\* skips a visited file is never taken.
C18_WorkSetDisjoint ==
    /\ [](pc = "deps" => to_process \cap visited = {})
    /\ [][ (pc = "deps" /\ to_process # {}) =>
              /\ visited' # visited
              /\ \E current \in to_process \ visited :
                    /\ visited' = visited \cup {current}
                    /\ current \notin to_process' ]_vars

\* in the middle of the loop: files wait in to_process while a file of the
\* same module directory, found by the same rglob, is already in visited
C18_Witness ==
    /\ pc = "deps"
    /\ start_file \in visited
    /\ Cardinality(visited) >= 2
    /\ to_process \cap visited = {}
    /\ \E f \in visited \ {start_file}, g \in to_process :
          f[1].stem = g[1].stem /\ f[1].stem \in RootSet

====
